---- MODULE Spec2Model ----
(***************************************************************************)
(* A model of the Euler gas-dynamics test driver of mirgecom:              *)
(*   - _euler_flow_stepper (src/test/test_euler.py), the RK4 time loop     *)
(*     with its status writes, modal filter and exit-tolerance check;      *)
(*   - test_uniform_rhs, the uniform-state check of euler_operator;        *)
(*   - the numerical fluxes and the conserved-state container the tests    *)
(*     import (modelled from the design document, their code not being     *)
(*     among the source files).                                            *)
(* Floating-point numbers are modelled by exact rationals <<n, d>>, d > 0, *)
(* in lowest terms.                                                        *)
(***************************************************************************)
EXTENDS Integers, Sequences, FiniteSets, TLC

\* ------------------------------------------------------------------ bounds
\* Largest value of the stability estimate get_inviscid_timestep returns.
MaxTs == 2
\* A square root is rounded down to a multiple of 1 / SqrtScale.
SqrtScale == 10

\* ------------------------------------------------------------ the state
VARIABLES
    parameters,    \* the parameters dictionary the stepper is called with
    pc,            \* position in _euler_flow_stepper
    t,             \* parameters["time"], advanced by the loop
    dt,            \* parameters["dt"], rebound in constant-CFL mode
    cfl,           \* parameters["cfl"], rebound in fixed-dt mode
    sdt,           \* cfl * get_inviscid_timestep(dcoll, fluid_state)
    istep,         \* step counter
    cv,            \* the conserved state, as the term that produced it
    fluid_state,   \* make_fluid_state(cv, gas_model), as a term
    ts,            \* the last get_inviscid_timestep: its value and its argument
    stage,         \* rk4_step: the right-hand sides evaluated so far in this step
    rhs_times,     \* the times rhs was called at in the current rk4_step
    n_rhs,         \* number of euler_operator evaluations so far
    n_filter,      \* number of filter_modally applications so far
    writes,        \* the write_soln calls made so far
    resid,         \* the final residual: its state and per-component maxima
    maxerr,        \* the final maxerr
    result,        \* how the call ended
    \* a numerical flux evaluated on the two sides of one face
    state_pair,    \* the interior and exterior states, the normal, the flux function
    flux_fwd,      \* flux(int, ext, normal)
    flux_bwd,      \* flux(ext, int, -normal)
    \* test_uniform_rhs
    uniform_params,  \* nspecies, dim, order, tpe, use_overintegration, numerical_flux_func
    uniform_pc,      \* position in test_uniform_rhs
    nel_index,       \* which entry of the nel_1d list the loop is at
    uniform_cv,      \* cv
    expected_rhs,    \* expected_rhs
    volume_part,     \* euler_operator: the weak volume term, per element and node
    face_part,       \* euler_operator: the face fluxes along and across, per node
    inviscid_rhs,    \* inviscid_rhs
    rhs_resid,       \* rhs_resid
    \* get_box_mesh
    box_args,        \* the arguments of the call: dim, a, b, n, t, periodic
    box_pc,          \* position in get_box_mesh
    periodic,        \* the local periodic
    bttf,            \* the dictionary bttf, as a function from its keys
    box_i,           \* the loop variable i + 1: the axis the loop is at
    gen_call         \* the keyword arguments generate_regular_rect_mesh is called with

stepper_vars == <<parameters, pc, t, dt, cfl, sdt, istep, cv, fluid_state, ts, stage,
                  rhs_times, n_rhs, n_filter, writes, resid, maxerr, result>>

flux_vars == <<state_pair, flux_fwd, flux_bwd>>

uniform_vars == <<uniform_params, uniform_pc, nel_index, uniform_cv, expected_rhs,
                  volume_part, face_part, inviscid_rhs, rhs_resid>>

box_vars == <<box_args, box_pc, periodic, bttf, box_i, gen_call>>

test_vars == <<flux_vars, uniform_vars, box_vars>>

vars == <<stepper_vars, test_vars>>

\* ------------------------------------------------------- rational numbers
RECURSIVE Gcd(_, _)
Gcd(a, b) == IF b = 0 THEN a ELSE Gcd(b, a % b)

Abs(x) == IF x < 0 THEN -x ELSE x

\* The rational n/d in lowest terms with a positive denominator.
Rat(n, d) ==
    LET s == IF d < 0 THEN -1 ELSE 1
        g == Gcd(Abs(n), Abs(d))
    IN  <<(s * n) \div g, (s * d) \div g>>

RInt(k) == <<k, 1>>
RZero == <<0, 1>>
ROne == <<1, 1>>
RAdd(x, y) ==
    LET g == Gcd(x[2], y[2])
    IN  Rat(x[1] * (y[2] \div g) + y[1] * (x[2] \div g), (x[2] \div g) * y[2])
RNeg(x) == <<-x[1], x[2]>>
RSub(x, y) == RAdd(x, RNeg(y))
RMul(x, y) == Rat(x[1] * y[1], x[2] * y[2])
RDiv(x, y) == Rat(x[1] * y[2], x[2] * y[1])
RLt(x, y) == x[1] * y[2] < y[1] * x[2]
RLe(x, y) == x[1] * y[2] <= y[1] * x[2]
RMax(x, y) == IF RLt(x, y) THEN y ELSE x
RAbs(x) == <<Abs(x[1]), x[2]>>


\* ---------------------------------------------------- vectors of numbers
RECURSIVE RSum(_)
RSum(s) == IF s = <<>> THEN RZero ELSE RAdd(s[1], RSum(Tail(s)))

\* A sequence given as a function, as the tuple of its values.
Tuple(s) == s \o <<>>

VAdd(a, b) == Tuple([i \in 1 .. Len(a) |-> RAdd(a[i], b[i])])
VSub(a, b) == Tuple([i \in 1 .. Len(a) |-> RSub(a[i], b[i])])
VScale(k, a) == Tuple([i \in 1 .. Len(a) |-> RMul(k, a[i])])
VNeg(a) == Tuple([i \in 1 .. Len(a) |-> RNeg(a[i])])
Dot(a, b) == RSum([i \in 1 .. Len(a) |-> RMul(a[i], b[i])])

\* The integer square root, and the square root of a rational rounded down to
\* a multiple of 1 / SqrtScale.
ISqrt(n) == CHOOSE r \in 0 .. n : r * r <= n /\ (r + 1) * (r + 1) > n
RSqrt(x) == Rat(ISqrt((x[1] * SqrtScale * SqrtScale) \div x[2]), SqrtScale)

\* ------------------------------------------ conserved state, EOS, fluxes
\* make_conserved(dim, mass=, energy=, momentum=, species_mass=).
make_conserved(d, mass, energy, momentum, species_mass) ==
    [dim |-> d, mass |-> mass, energy |-> energy, momentum |-> momentum,
     species_mass |-> species_mass]

\* make_conserved(dim, q=...): the flat sequence split as mass, energy, the dim
\* momentum components, and the species masses that remain.
make_conserved_q(d, q) ==
    [dim |-> d, mass |-> q[1], energy |-> q[2], momentum |-> SubSeq(q, 3, d + 2),
     species_mass |-> SubSeq(q, d + 3, Len(q))]

\* A conserved state not yet built.
NoState == make_conserved(0, <<>>, <<>>, <<>>, <<>>)

\* The flat sequence of the D + 2 + S components of a conserved state.
join(state) == <<state.mass, state.energy>> \o state.momentum \o state.species_mass

\* The ratio of specific heats of IdealSingleGas.
gamma == <<7, 5>>

\* The EOS-derived quantities of a conserved state at one point.
velocity(state) == VScale(RDiv(ROne, state.mass), state.momentum)

pressure(state) ==
    RMul(RSub(gamma, ROne),
         RSub(state.energy,
              RDiv(Dot(state.momentum, state.momentum), RMul(<<2, 1>>, state.mass))))

speed_of_sound(state) == RSqrt(RDiv(RMul(gamma, pressure(state)), state.mass))

\* The flux of the Euler equations through a face of unit normal n: the flat
\* sequence of its mass, energy, momentum and species components.
inviscid_flux_normal(state, n) ==
    LET vn == Dot(velocity(state), n)
        p == pressure(state)
    IN  <<RMul(state.mass, vn), RMul(RAdd(state.energy, p), vn)>>
        \o Tuple([i \in 1 .. Len(n) |-> RAdd(RMul(state.momentum[i], vn), RMul(p, n[i]))])
        \o VScale(vn, state.species_mass)

\* |u . n| + speed of sound.
wavespeed(state, n) == RAdd(RAbs(Dot(velocity(state), n)), speed_of_sound(state))

\* Rusanov with the signal speed of the interior side alone.
inviscid_facial_flux_rusanov_one_sided(a, b, n) ==
    LET lam == wavespeed(a, n)
    IN  VScale(<<1, 2>>,
               VSub(VAdd(inviscid_flux_normal(a, n), inviscid_flux_normal(b, n)),
                    VScale(lam, VSub(join(b), join(a)))))

\* Rusanov with the sum of the two fluxes in place of their average.
inviscid_facial_flux_rusanov_sum(a, b, n) ==
    LET lam == RMax(wavespeed(a, n), wavespeed(b, n))
    IN  VSub(VAdd(inviscid_flux_normal(a, n), inviscid_flux_normal(b, n)),
             VScale(RMul(<<1, 2>>, lam), VSub(join(b), join(a))))

\* Rusanov / local Lax-Friedrichs: the average of the two fluxes minus half the
\* largest signal speed of either side times the jump of the state.
inviscid_facial_flux_rusanov(a, b, n) ==
    LET lam == RMax(wavespeed(a, n), wavespeed(b, n))
    IN  VScale(<<1, 2>>,
               VSub(VAdd(inviscid_flux_normal(a, n), inviscid_flux_normal(b, n)),
                    VScale(lam, VSub(join(b), join(a)))))

\* HLL: the leftmost and rightmost signal speeds over both states blend the
\* two fluxes; when both speeds have one sign the flux is the upwind one.
inviscid_facial_flux_hll(a, b, n) ==
    LET ua == Dot(velocity(a), n)
        ub == Dot(velocity(b), n)
        ca == speed_of_sound(a)
        cb == speed_of_sound(b)
        lo == RSub(ua, ca)
        lo2 == RSub(ub, cb)
        s_minus == IF RLt(lo2, lo) THEN lo2 ELSE lo
        s_plus == RMax(RAdd(ua, ca), RAdd(ub, cb))
        fa == inviscid_flux_normal(a, n)
        fb == inviscid_flux_normal(b, n)
    IN  IF RLe(RZero, s_minus) THEN fa
        ELSE IF RLe(s_plus, RZero) THEN fb
        ELSE VScale(RDiv(ROne, RSub(s_plus, s_minus)),
                    VAdd(VSub(VScale(s_plus, fa), VScale(s_minus, fb)),
                         VScale(RMul(s_plus, s_minus), VSub(join(b), join(a)))))

\* The numerical flux function passed by value.
numerical_flux(func, a, b, n) ==
    IF func = "rusanov" THEN inviscid_facial_flux_rusanov(a, b, n)
    ELSE inviscid_facial_flux_hll(a, b, n)

FluxFuncs == {"rusanov", "hll"}

\* The unit normal along axis k, outward (sgn = 1) or inward (sgn = -1).
axis_normal(d, k, sgn) ==
    Tuple([i \in 1 .. d |-> IF i = k THEN <<sgn, 1>> ELSE RZero])

\* The unit normals along the axes of a d-dimensional mesh.
UnitNormals(d) ==
    {axis_normal(d, k, sgn) : k \in 1 .. d, sgn \in {-1, 1}}

\* Valid states: positive density and pressure, any velocity, built as the
\* initializers build them (energy = p / (gamma - 1) + rho |v|^2 / 2).
Densities == {<<1, 1>>, <<2, 1>>}
Pressures == {<<1, 1>>, <<3, 1>>}
Speeds == {<<-2, 1>>, <<0, 1>>, <<3, 1>>}
\* Velocity vectors: every speed on a line, a sample of the pairs in the plane
\* (at rest, along one axis either way, oblique), uniform in more dimensions.
Velocities(d) ==
    IF d = 1 THEN {<<v>> : v \in Speeds}
    ELSE IF d = 2 THEN {<<RZero, RZero>>, <<<<-2, 1>>, RZero>>, <<RZero, <<3, 1>>>>,
                        <<<<3, 1>>, <<-2, 1>>>>}
    ELSE {[i \in 1 .. d |-> v] : v \in Speeds}
MassFractions == {<<1, 10>>}

from_primitive(d, rho, v, p, y) ==
    make_conserved(d, rho,
                   RAdd(RDiv(p, RSub(gamma, ROne)),
                        RMul(<<1, 2>>, RMul(rho, Dot(v, v)))),
                   VScale(rho, v), VScale(rho, y))

ValidStates(d, ns) ==
    {from_primitive(d, rho, v, p, y) :
        rho \in Densities, v \in Velocities(d), p \in Pressures,
        y \in [1 .. ns -> MassFractions]}

\* ------------------------------------------------- _euler_flow_stepper
\* The parameter values a run is started with.
FinalTimes == {<<0, 1>>, <<1, 1>>, <<2, 1>>}
TimeSteps == {<<1, 2>>, <<1, 1>>}
CflNumbers == {<<1, 1>>, <<2, 1>>}
StatusFreqs == {0, 1, 2}
ExitTols == {<<1, 1>>}
ErrVals == {<<1, 1>>, <<2, 1>>}
Dims == {1, 2}
SpeciesCounts == {0, 1}

\* The locals the stepper reads from parameters and never rebinds.
t_final == parameters.tfinal
exittol == parameters.exittol
constantcfl == parameters.constantcfl
nstepstatus == parameters.nstatus
dim == parameters.dim
nspecies == parameters.nspecies

\* A value not yet computed.
NoValue == <<"none">>

\* initializer(nodes): the initial conserved state.
initializer == <<"init">>

\* make_fluid_state(cv, gas_model): a pure function of cv.
make_fluid_state(q) == <<"fluid", q>>

\* filter_modally(dcoll, cutoff, frfunc, cv).
filter_modally(q) == <<"filter", q>>

\* The stage times of the classical RK4 scheme.
rk4_time(k, t0, h) ==
    CASE k = 1 -> t0
      [] k = 2 -> RAdd(t0, RDiv(h, RInt(2)))
      [] k = 3 -> RAdd(t0, RDiv(h, RInt(2)))
      [] k = 4 -> RAdd(t0, h)

\* The state rk4_step evaluates stage k at: y itself, then y advanced along the
\* slope of stage k - 1 (y + h/2 k1, y + h/2 k2, y + h k3).
rk4_stage_state(k, y) ==
    IF k = 1 THEN y ELSE <<"stage", k>>

\* rhs(t, q) of the stepper: one fluid state, one euler_operator evaluation.
rhs(time, q) == <<"euler_operator", make_fluid_state(q), time>>

\* rhs evaluates euler_operator twice.
rhs_evals_twice == 1 + 1

\* Number of euler_operator evaluations one call of rhs makes.
rhs_evals == 1

\* rk4_step's result: y + h/6 (k1 + 2 k2 + 2 k3 + k4).
rk4_result(y, t0, h) == <<"rk4", y, t0, h>>

\* The status test taken one step early.
status_due_early(n, every) == every > 0 /\ (n + 1) % every = 0

\* istep % nstepstatus == 0 under nstepstatus > 0.
status_due(n, every) == every > 0 /\ n % every = 0

\* write_soln(state, write_status): the record of one call.
write_soln(state, write_status) ==
    [state |-> state, status |-> write_status, istep |-> istep, t |-> t,
     n_rhs |-> n_rhs, at |-> pc]

\* The components write_soln takes the maximum error over: range(dim + 2).
write_soln_components(d, s) == 1 .. (d + 2)

\* The components max_component_norm takes the maximum over: all of them.
max_component_norm_components(d, s) == 1 .. (d + 2 + s)

\* The maximum of r over the components in idx.
MaxOver(r, idx) == CHOOSE m \in {r[i] : i \in idx} : \A i \in idx : RLe(r[i], m)

\* The exit test taken as maxerr >= exittol.
diverged_or_equal(err, tol) == RLe(tol, err)

\* The test at the end: maxerr > exittol.
diverged(err, tol) == RLt(tol, err)

StepperInit ==
    /\ parameters \in [time : {RZero}, tfinal : FinalTimes, dt : TimeSteps,
                       cfl : CflNumbers, constantcfl : BOOLEAN,
                       nstatus : StatusFreqs, exittol : ExitTols, dim : Dims,
                       nspecies : SpeciesCounts]
    /\ pc = "entry"
    /\ t = parameters.time
    /\ dt = parameters.dt
    /\ cfl = parameters.cfl
    /\ sdt = RZero
    /\ istep = 0
    /\ cv = NoValue
    /\ fluid_state = NoValue
    /\ ts = NoValue
    /\ stage = <<>>
    /\ rhs_times = <<>>
    /\ n_rhs = 0
    /\ n_filter = 0
    /\ writes = <<>>
    /\ resid = NoValue
    /\ maxerr = NoValue
    /\ result = "running"

\* The entry test taken as t_final < t.
returns_early_strict(tf, time) == RLt(tf, time)

\* if t_final <= t
returns_early(tf, time) == RLe(tf, time)

\* if t_final <= t: return 0.0
EarlyReturn ==
    /\ pc = "entry"
    /\ returns_early(t_final, t)
    /\ pc' = "done"
    /\ result' = "zero"
    /\ UNCHANGED test_vars
    /\ UNCHANGED <<parameters, t, dt, cfl, sdt, istep, cv, fluid_state, ts, stage,
                   rhs_times, n_rhs, n_filter, writes, resid, maxerr>>

\* The setup: the initial state, its fluid state and the first step estimate.
Setup ==
    /\ pc = "entry"
    /\ ~returns_early(t_final, t)
    /\ istep' = 0
    /\ cv' = initializer
    /\ fluid_state' = make_fluid_state(initializer)
    /\ \E est \in 1 .. MaxTs :
          /\ ts' = <<est, fluid_state'>>
          /\ sdt' = RMul(cfl, RInt(est))
    /\ pc' = "while"
    /\ UNCHANGED test_vars
    /\ UNCHANGED <<parameters, t, dt, cfl, stage, rhs_times, n_rhs, n_filter, writes,
                   resid, maxerr, result>>

\* The loop test taken as t <= t_final.
LoopTestInclusive ==
    /\ pc = "while"
    /\ pc' = IF RLe(t, t_final) THEN "select" ELSE "final"
    /\ UNCHANGED test_vars
    /\ UNCHANGED <<parameters, t, dt, cfl, sdt, istep, cv, fluid_state, ts, stage,
                   rhs_times, n_rhs, n_filter, writes, resid, maxerr, result>>

\* while t < t_final
LoopTest ==
    /\ pc = "while"
    /\ pc' = IF RLt(t, t_final) THEN "select" ELSE "final"
    /\ UNCHANGED test_vars
    /\ UNCHANGED <<parameters, t, dt, cfl, sdt, istep, cv, fluid_state, ts, stage,
                   rhs_times, n_rhs, n_filter, writes, resid, maxerr, result>>

\* The two branches taken the wrong way round: the step is replaced in fixed-dt
\* mode and cfl is recomputed in constant-CFL mode.
SelectStepInverted ==
    /\ pc = "select"
    /\ IF ~constantcfl
          THEN dt' = sdt /\ cfl' = cfl
          ELSE cfl' = RDiv(dt, sdt) /\ dt' = dt
    /\ pc' = "status"
    /\ UNCHANGED test_vars
    /\ UNCHANGED <<parameters, t, sdt, istep, cv, fluid_state, ts, stage, rhs_times,
                   n_rhs, n_filter, writes, resid, maxerr, result>>

\* if constantcfl is True: dt = sdt  else: cfl = dt / sdt
SelectStep ==
    /\ pc = "select"
    /\ IF constantcfl
          THEN dt' = sdt /\ cfl' = cfl
          ELSE cfl' = RDiv(dt, sdt) /\ dt' = dt
    /\ pc' = "status"
    /\ UNCHANGED test_vars
    /\ UNCHANGED <<parameters, t, sdt, istep, cv, fluid_state, ts, stage, rhs_times,
                   n_rhs, n_filter, writes, resid, maxerr, result>>

\* if nstepstatus > 0: if istep % nstepstatus == 0: write_soln(state=cv)
Status ==
    /\ pc = "status"
    /\ writes' = IF status_due(istep, nstepstatus)
                    THEN Append(writes, write_soln(cv, TRUE))
                    ELSE writes
    /\ stage' = <<>>
    /\ rhs_times' = <<>>
    /\ pc' = "rk4"
    /\ UNCHANGED test_vars
    /\ UNCHANGED <<parameters, t, dt, cfl, sdt, istep, cv, fluid_state, ts, n_rhs,
                   n_filter, resid, maxerr, result>>

\* One stage of cv = rk4_step(cv, t, dt, rhs): a call of rhs.
RkStage ==
    /\ pc = "rk4"
    /\ Len(stage) < 4
    /\ LET k == Len(stage) + 1
           time == rk4_time(k, t, dt)
       IN  /\ stage' = Append(stage, rhs(time, rk4_stage_state(k, cv)))
           /\ rhs_times' = Append(rhs_times, time)
    /\ n_rhs' = n_rhs + rhs_evals
    /\ UNCHANGED test_vars
    /\ UNCHANGED <<parameters, pc, t, dt, cfl, sdt, istep, cv, fluid_state, ts,
                   n_filter, writes, resid, maxerr, result>>

\* rk4_step returns: cv is rebound to the updated state.
RkReturn ==
    /\ pc = "rk4"
    /\ Len(stage) = 4
    /\ cv' = rk4_result(cv, t, dt)
    /\ pc' = "filter"
    /\ UNCHANGED test_vars
    /\ UNCHANGED <<parameters, t, dt, cfl, sdt, istep, fluid_state, ts, stage,
                   rhs_times, n_rhs, n_filter, writes, resid, maxerr, result>>

\* filter_modally is called and its result dropped: cv is not rebound.
FilterResultDropped ==
    /\ pc = "filter"
    /\ n_filter' = n_filter + 1
    /\ pc' = "fluid"
    /\ UNCHANGED test_vars
    /\ UNCHANGED <<parameters, t, dt, cfl, sdt, istep, cv, fluid_state, ts, stage,
                   rhs_times, n_rhs, writes, resid, maxerr, result>>

\* cv = filter_modally(dcoll, cutoff, frfunc, cv)
Filter ==
    /\ pc = "filter"
    /\ cv' = filter_modally(cv)
    /\ n_filter' = n_filter + 1
    /\ pc' = "fluid"
    /\ UNCHANGED test_vars
    /\ UNCHANGED <<parameters, t, dt, cfl, sdt, istep, fluid_state, ts, stage,
                   rhs_times, n_rhs, writes, resid, maxerr, result>>

\* fluid_state = make_fluid_state(cv, gas_model)
MakeFluidState ==
    /\ pc = "fluid"
    /\ fluid_state' = make_fluid_state(cv)
    /\ pc' = "advance"
    /\ UNCHANGED test_vars
    /\ UNCHANGED <<parameters, t, dt, cfl, sdt, istep, cv, ts, stage, rhs_times,
                   n_rhs, n_filter, writes, resid, maxerr, result>>

\* t += dt; istep += 1
Advance ==
    /\ pc = "advance"
    /\ t' = RAdd(t, dt)
    /\ istep' = istep + 1
    /\ pc' = "estimate"
    /\ UNCHANGED test_vars
    /\ UNCHANGED <<parameters, dt, cfl, sdt, cv, fluid_state, ts, stage, rhs_times,
                   n_rhs, n_filter, writes, resid, maxerr, result>>

\* sdt = cfl * get_inviscid_timestep(dcoll, fluid_state)
Estimate ==
    /\ pc = "estimate"
    /\ \E est \in 1 .. MaxTs :
          /\ ts' = <<est, fluid_state>>
          /\ sdt' = RMul(cfl, RInt(est))
    /\ pc' = "while"
    /\ UNCHANGED test_vars
    /\ UNCHANGED <<parameters, t, dt, cfl, istep, cv, fluid_state, stage, rhs_times,
                   n_rhs, n_filter, writes, resid, maxerr, result>>

\* After the loop: the final dump (nstepstatus > 0) or max_component_norm.
FinalError ==
    /\ pc = "final"
    /\ \E r \in [1 .. (dim + 2 + nspecies) -> ErrVals] :
          /\ resid' = <<cv, r>>
          /\ IF nstepstatus > 0
                THEN /\ writes' = Append(writes, write_soln(cv, FALSE))
                     /\ maxerr' = MaxOver(r, write_soln_components(dim, nspecies))
                ELSE /\ writes' = writes
                     /\ maxerr' = MaxOver(r, max_component_norm_components(dim, nspecies))
    /\ pc' = "check"
    /\ UNCHANGED test_vars
    /\ UNCHANGED <<parameters, t, dt, cfl, sdt, istep, cv, fluid_state, ts, stage,
                   rhs_times, n_rhs, n_filter, result>>

\* if maxerr > exittol: raise ValueError(...);  return h_max, maxerr
ExitCheck ==
    /\ pc = "check"
    /\ result' = IF diverged(maxerr, exittol) THEN "ValueError" ELSE "pair"
    /\ pc' = "done"
    /\ UNCHANGED test_vars
    /\ UNCHANGED <<parameters, t, dt, cfl, sdt, istep, cv, fluid_state, ts, stage,
                   rhs_times, n_rhs, n_filter, writes, resid, maxerr>>

\* No flux is being evaluated.
FluxIdle == state_pair = NoValue /\ flux_fwd = NoValue /\ flux_bwd = NoValue

\* test_uniform_rhs is not running.
UniformIdle ==
    /\ uniform_params = NoValue
    /\ uniform_pc = "idle"
    /\ nel_index = 0
    /\ uniform_cv = NoState
    /\ expected_rhs = NoState
    /\ inviscid_rhs = NoState
    /\ volume_part = <<>>
    /\ face_part = <<>>
    /\ rhs_resid = NoState

\* get_box_mesh is not running.
BoxIdle ==
    /\ box_args = NoValue
    /\ box_pc = "idle"
    /\ periodic = NoValue
    /\ bttf = <<>>
    /\ box_i = 0
    /\ gen_call = NoValue

Init == StepperInit /\ FluxIdle /\ UniformIdle /\ BoxIdle

Next ==
    \/ EarlyReturn
    \/ Setup
    \/ LoopTest
    \/ SelectStep
    \/ Status
    \/ RkStage
    \/ RkReturn
    \/ Filter
    \/ MakeFluidState
    \/ Advance
    \/ Estimate
    \/ FinalError
    \/ ExitCheck

Spec == Init /\ [][Next]_vars

\* The stepper is one sequential call: whenever a statement can run, it does.
FairSpec == Spec /\ WF_vars(Next)

\* --------------------------------------- one numerical flux on one face
\* No stepper is running.
StepperIdle ==
    /\ parameters = NoValue
    /\ pc = "idle"
    /\ t = RZero
    /\ dt = RZero
    /\ cfl = RZero
    /\ sdt = RZero
    /\ istep = 0
    /\ cv = NoValue
    /\ fluid_state = NoValue
    /\ ts = NoValue
    /\ stage = <<>>
    /\ rhs_times = <<>>
    /\ n_rhs = 0
    /\ n_filter = 0
    /\ writes = <<>>
    /\ resid = NoValue
    /\ maxerr = NoValue
    /\ result = "idle"

\* The dimensions and species counts the fluxes are evaluated for.
FluxDims == {1, 2}
FluxSpecies == {0, 1}

FluxInit ==
    /\ StepperIdle
    /\ UniformIdle
    /\ BoxIdle
    /\ \E d \in FluxDims, ns \in FluxSpecies :
          state_pair \in [int : ValidStates(d, ns), ext : ValidStates(d, ns),
                          normal : UnitNormals(d), func : FluxFuncs]
    /\ flux_fwd = NoValue
    /\ flux_bwd = NoValue

\* flux(int, ext, normal): the flux seen from the interior side.
EvalForward ==
    /\ flux_fwd = NoValue
    /\ flux_fwd' = numerical_flux(state_pair.func, state_pair.int, state_pair.ext,
                                  state_pair.normal)
    /\ UNCHANGED <<state_pair, flux_bwd>>
    /\ UNCHANGED <<stepper_vars, uniform_vars, box_vars>>

\* flux(ext, int, -normal): the same face seen from the other side.
EvalBackward ==
    /\ flux_fwd # NoValue
    /\ flux_bwd = NoValue
    /\ flux_bwd' = numerical_flux(state_pair.func, state_pair.ext, state_pair.int,
                                  VNeg(state_pair.normal))
    /\ UNCHANGED <<state_pair, flux_fwd>>
    /\ UNCHANGED <<stepper_vars, uniform_vars, box_vars>>

FluxNext == EvalForward \/ EvalBackward

SpecFlux == FluxInit /\ [][FluxNext]_vars

\* ------------------------------------------- euler_operator on a mesh
\* The mesh is a row of nel elements along the first axis, each of length and
\* width 1 / nel; a field holds order + 1 nodal values per element (a
\* polynomial of that order along the row, constant across it).  A conserved
\* state on the mesh has one such field per component.
Const(ndofs, x) == Tuple([k \in 1 .. ndofs |-> x])

\* The conserved state at node k of a conserved state of fields.
state_at(state, k) ==
    make_conserved(state.dim, state.mass[k], state.energy[k],
                   Tuple([i \in 1 .. Len(state.momentum) |-> state.momentum[i][k]]),
                   Tuple([sp \in 1 .. Len(state.species_mass) |->
                            state.species_mass[sp][k]]))

\* A boundary whose exterior state has the interior's momentum reversed.
reflecting_boundary_state(interior) == [interior EXCEPT !.momentum = VNeg(@)]

\* DummyBoundary: the exterior state is the interior state.
dummy_boundary_state(interior) == interior

RECURSIVE lincomb(_, _, _)
\* The sum of the first k vectors of v, each times its coefficient in c.
lincomb(c, v, k) ==
    IF k = 1 THEN VScale(c[1], v[1])
    ELSE VAdd(lincomb(c, v, k - 1), VScale(c[k], v[k]))

\* The weak derivative on the reference element [0, 1] with order + 1 equally
\* spaced nodes: entry [i][j] is the integral of basis function j against the
\* derivative of basis function i.
stiffness_t ==
    <<<<<<<<-1, 2>>, <<-1, 2>>>>,
       <<<<1, 2>>, <<1, 2>>>>>>,
      <<<<<<-1, 2>>, <<-2, 3>>, <<1, 6>>>>,
       <<<<2, 3>>, <<0, 1>>, <<-2, 3>>>>,
       <<<<-1, 6>>, <<2, 3>>, <<1, 2>>>>>>,
      <<<<<<-1, 2>>, <<-57, 80>>, <<3, 10>>, <<-7, 80>>>>,
       <<<<57, 80>>, <<0, 1>>, <<-81, 80>>, <<3, 10>>>>,
       <<<<-3, 10>>, <<81, 80>>, <<0, 1>>, <<-57, 80>>>>,
       <<<<7, 80>>, <<-3, 10>>, <<57, 80>>, <<1, 2>>>>>>>>

\* The inverse of the reference element's mass matrix (the integrals of the
\* products of two basis functions).
mass_inverse ==
    <<<<<<<<4, 1>>, <<-2, 1>>>>,
       <<<<-2, 1>>, <<4, 1>>>>>>,
      <<<<<<9, 1>>, <<-3, 2>>, <<3, 1>>>>,
       <<<<-3, 2>>, <<9, 4>>, <<-3, 2>>>>,
       <<<<3, 1>>, <<-3, 2>>, <<9, 1>>>>>>,
      <<<<<<16, 1>>, <<-68, 27>>, <<32, 27>>, <<-4, 1>>>>,
       <<<<-68, 27>>, <<2224, 729>>, <<44, 729>>, <<32, 27>>>>,
       <<<<32, 27>>, <<44, 729>>, <<2224, 729>>, <<-68, 27>>>>,
       <<<<-4, 1>>, <<32, 27>>, <<-68, 27>>, <<16, 1>>>>>>>>

\* The quadrature grid of an order: 2 * order + 1 equally spaced points with
\* the closed Newton-Cotes weights.  Entry [q][j] is basis function j at point q.
quad_interp ==
    <<<<<<<<1, 1>>, <<0, 1>>>>,
       <<<<1, 2>>, <<1, 2>>>>,
       <<<<0, 1>>, <<1, 1>>>>>>,
      <<<<<<1, 1>>, <<0, 1>>, <<0, 1>>>>,
       <<<<3, 8>>, <<3, 4>>, <<-1, 8>>>>,
       <<<<0, 1>>, <<1, 1>>, <<0, 1>>>>,
       <<<<-1, 8>>, <<3, 4>>, <<3, 8>>>>,
       <<<<0, 1>>, <<0, 1>>, <<1, 1>>>>>>,
      <<<<<<1, 1>>, <<0, 1>>, <<0, 1>>, <<0, 1>>>>,
       <<<<5, 16>>, <<15, 16>>, <<-5, 16>>, <<1, 16>>>>,
       <<<<0, 1>>, <<1, 1>>, <<0, 1>>, <<0, 1>>>>,
       <<<<-1, 16>>, <<9, 16>>, <<9, 16>>, <<-1, 16>>>>,
       <<<<0, 1>>, <<0, 1>>, <<1, 1>>, <<0, 1>>>>,
       <<<<1, 16>>, <<-5, 16>>, <<15, 16>>, <<5, 16>>>>,
       <<<<0, 1>>, <<0, 1>>, <<0, 1>>, <<1, 1>>>>>>>>

\* Entry [i][q] is the weight of point q times the derivative of basis
\* function i at point q.
quad_stiffness_t ==
    <<<<<<<<-1, 6>>, <<-2, 3>>, <<-1, 6>>>>,
       <<<<1, 6>>, <<2, 3>>, <<1, 6>>>>>>,
      <<<<<<-7, 30>>, <<-32, 45>>, <<-2, 15>>, <<0, 1>>, <<7, 90>>>>,
       <<<<14, 45>>, <<32, 45>>, <<0, 1>>, <<-32, 45>>, <<-14, 45>>>>,
       <<<<-7, 90>>, <<0, 1>>, <<2, 15>>, <<32, 45>>, <<7, 30>>>>>>,
      <<<<<<-451, 1680>>, <<-207, 280>>, <<-9, 280>>, <<17, 420>>, <<9, 560>>, <<9, 280>>, <<-41, 840>>>>,
       <<<<123, 280>>, <<27, 40>>, <<-27, 560>>, <<-153, 140>>, <<-27, 280>>, <<-27, 280>>, <<123, 560>>>>,
       <<<<-123, 560>>, <<27, 280>>, <<27, 280>>, <<153, 140>>, <<27, 560>>, <<-27, 40>>, <<-123, 280>>>>,
       <<<<41, 840>>, <<-9, 280>>, <<-9, 560>>, <<-17, 420>>, <<9, 280>>, <<207, 280>>, <<451, 1680>>>>>>>>

\* The weak volume term of one element, for each of its order + 1 nodes: the
\* integral of the flux against the derivative of the node's basis function.
\* The flux is taken at the nodes or (over-integration) at the points of the
\* quadrature grid, from the state interpolated there.
volume_term(order, u, quad) ==
    LET n == axis_normal(u[1].dim, 1, 1)
        q == Tuple([j \in 1 .. order + 1 |-> join(u[j])])
        at_quad == Tuple([k \in 1 .. 2 * order + 1 |->
                            make_conserved_q(u[1].dim,
                                             lincomb(quad_interp[order][k], q,
                                                     order + 1))])
        points == IF quad THEN at_quad ELSE u
        weights == IF quad THEN quad_stiffness_t[order] ELSE stiffness_t[order]
        flux == Tuple([k \in 1 .. Len(points) |-> inviscid_flux_normal(points[k], n)])
    IN  Tuple([i \in 1 .. order + 1 |-> lincomb(weights[i], flux, Len(flux))])

\* Volume and face contributions combined: the flux through the faces leaves
\* the element.
combine(vol, face) == VSub(vol, face)

\* The faces along the row at node j of element e, each as <<interior state,
\* exterior state, outward normal>>: the neighbouring element's trace on an
\* interior face, the boundary's state at either end of the row, and no face
\* at a node inside the element.
along_faces(nel, order, state, e, j) ==
    LET np == order + 1
        x == state_at(state, np * (e - 1) + j)
    IN  IF j = 1
        THEN <<<<x, IF e = 1 THEN dummy_boundary_state(x)
                    ELSE state_at(state, np * (e - 1)),
                 axis_normal(state.dim, 1, -1)>>>>
        ELSE IF j = np
        THEN <<<<x, IF e = nel THEN dummy_boundary_state(x)
                    ELSE state_at(state, np * e + 1),
                 axis_normal(state.dim, 1, 1)>>>>
        ELSE <<>>

\* The faces across the row at a node, along the axes 2 .. dim, one on either
\* side: the state beyond is the state at the node, on a boundary face (the
\* boundary's state) and on an interior face (the field does not vary across).
across_faces(x) ==
    Tuple([k \in 1 .. 2 * (x.dim - 1) |->
             <<x, dummy_boundary_state(x),
               axis_normal(x.dim, 2 + (k - 1) \div 2, IF k % 2 = 1 THEN 1 ELSE -1)>>])

RECURSIVE face_term(_, _, _, _)
\* The numerical flux summed over the first k faces of a list.
face_term(func, faces, k, ncomp) ==
    IF k = 0 THEN Tuple([c \in 1 .. ncomp |-> RZero])
    ELSE VAdd(face_term(func, faces, k - 1, ncomp),
              numerical_flux(func, faces[k][1], faces[k][2], faces[k][3]))

\* The inverse of the mass matrix of an element of length h, applied to the
\* nodal residuals r of the element, at node i.
lift(order, h, r, i) ==
    VScale(RDiv(ROne, h), lincomb(mass_inverse[order][i], r, order + 1))

\* euler_operator, the volume part: the physical flux in the volume and its
\* weak divergence, per element, on the base or on the quadrature grid.
volume_terms(nel, order, state, quad) ==
    Tuple([e \in 1 .. nel |->
             volume_term(order,
                         Tuple([j \in 1 .. order + 1 |->
                                  state_at(state, (order + 1) * (e - 1) + j)]),
                         quad)])

\* euler_operator, the face part: the numerical flux through the interior and
\* the boundary faces, summed per node along the row and across it.
face_terms(nel, order, state, func) ==
    LET np == order + 1
        ncomp == state.dim + 2 + Len(state.species_mass)
    IN  [along |-> Tuple([e \in 1 .. nel |->
                            Tuple([j \in 1 .. np |->
                                     face_term(func,
                                               along_faces(nel, order, state, e, j),
                                               IF j \in {1, np} THEN 1 ELSE 0,
                                               ncomp)])]),
         across |-> Tuple([k \in 1 .. np * nel |->
                             face_term(func, across_faces(state_at(state, k)),
                                       2 * (state.dim - 1), ncomp)])]

\* euler_operator(dcoll, state, gas_model, boundaries, quadrature_tag,
\* inviscid_numerical_flux_func): the time derivative of the conserved state,
\* from the volume and the face contributions.
euler_operator(nel, order, d, vol, faces) ==
    LET np == order + 1
        h == <<1, nel>>
        net == Tuple([e \in 1 .. nel |->
                        Tuple([j \in 1 .. np |->
                                 combine(vol[e][j], faces.along[e][j])])])
        nodal == Tuple([k \in 1 .. np * nel |->
                          combine(lift(order, h, net[((k - 1) \div np) + 1],
                                       ((k - 1) % np) + 1),
                                  VScale(RDiv(ROne, h), faces.across[k]))])
    IN  make_conserved_q(d, Tuple([c \in 1 .. Len(nodal[1]) |->
                                     Tuple([k \in 1 .. np * nel |-> nodal[k][c]])]))

\* Subtraction of conserved states of fields, component by component.
cv_sub(a, b) ==
    [dim |-> a.dim,
     mass |-> VSub(a.mass, b.mass),
     energy |-> VSub(a.energy, b.energy),
     momentum |-> Tuple([i \in 1 .. Len(a.momentum) |->
                           VSub(a.momentum[i], b.momentum[i])]),
     species_mass |-> Tuple([sp \in 1 .. Len(a.species_mass) |->
                               VSub(a.species_mass[sp], b.species_mass[sp])])]

\* op.norm(dcoll, x, np.inf) < tolerance, for tolerance = 1e-9.
tolerance_inv == 1000000000

inf_norm_below_tolerance(x) ==
    \A k \in 1 .. Len(x) : Abs(x[k][1]) <= (x[k][2] - 1) \div tolerance_inv

\* ------------------------------------------------------ test_uniform_rhs
\* The meshes of the test: elements per axis.
nel_1d == <<4, 8>>

\* [ones / ((i + 1) * 10) for i in range(nspecies)], times the density.
species_mass_input(ns, ndofs) ==
    Tuple([sp \in 1 .. ns |-> Const(ndofs, RMul(ROne, <<1, sp * 10>>))])

\* The uniform momentum: zero, then (-1) ** i along axis i (counted from 0).
mom_input(d, ndofs, moving) ==
    Tuple([i \in 1 .. d |->
             Const(ndofs, IF ~moving THEN RZero
                          ELSE IF i % 2 = 1 THEN ROne ELSE <<-1, 1>>)])

\* The count of equations with the species left out.
num_equations_without_species(d, species) == d + 2

\* num_equations = dim + 2 + len(species_mass_input)
num_equations(d, species) == d + 2 + Len(species)

\* cv = make_conserved(dim, mass=mass_input, energy=energy_input,
\*                     momentum=mom_input, species_mass=species_mass_input)
uniform_state(d, ns, ndofs, moving) ==
    make_conserved(d, Const(ndofs, ROne), Const(ndofs, <<5, 2>>),
                   mom_input(d, ndofs, moving), species_mass_input(ns, ndofs))

\* The assertions on the residual: every component below the tolerance.
residual_below_tolerance(r) ==
    /\ inf_norm_below_tolerance(r.mass)
    /\ inf_norm_below_tolerance(r.energy)
    /\ \A i \in 1 .. r.dim : inf_norm_below_tolerance(r.momentum[i])
    /\ \A sp \in 1 .. Len(r.species_mass) : inf_norm_below_tolerance(r.species_mass[sp])

UniformDims == {1, 2, 3}
UniformSpecies == {0, 10}
UniformOrders == {1, 2, 3}

UniformInit ==
    /\ StepperIdle
    /\ FluxIdle
    /\ BoxIdle
    /\ uniform_params \in [nspecies : UniformSpecies, dim : UniformDims,
                           order : UniformOrders, tpe : BOOLEAN,
                           use_overintegration : BOOLEAN,
                           numerical_flux_func : FluxFuncs]
    /\ uniform_pc = "mesh"
    /\ nel_index = 1
    /\ uniform_cv = NoState
    /\ expected_rhs = NoState
    /\ inviscid_rhs = NoState
    /\ volume_part = <<>>
    /\ face_part = <<>>
    /\ rhs_resid = NoState

\* if dim == 1 and tpe: pytest.skip(...)
skipped == uniform_params.dim = 1 /\ uniform_params.tpe

Skip ==
    /\ uniform_pc = "mesh"
    /\ nel_index = 1
    /\ skipped
    /\ uniform_pc' = "skipped"
    /\ UNCHANGED <<uniform_params, nel_index, uniform_cv, expected_rhs, volume_part,
                   face_part, inviscid_rhs, rhs_resid>>
    /\ UNCHANGED <<stepper_vars, flux_vars, box_vars>>

\* The uniform state of the current mesh, and the expected right-hand side.
BuildState(moving) ==
    /\ uniform_pc = (IF moving THEN "velocity" ELSE "mesh")
    /\ ~skipped
    /\ LET d == uniform_params.dim
           ndofs == (uniform_params.order + 1) * nel_1d[nel_index]
           species == species_mass_input(uniform_params.nspecies, ndofs)
       IN  /\ uniform_cv' = uniform_state(d, uniform_params.nspecies, ndofs, moving)
           /\ expected_rhs' =
                 IF moving THEN expected_rhs
                 ELSE make_conserved_q(d, Tuple([c \in 1 .. num_equations(d, species) |->
                                                   Const(ndofs, RZero)]))
    /\ inviscid_rhs' = NoState
    /\ volume_part' = <<>>
    /\ face_part' = <<>>
    /\ rhs_resid' = NoState
    /\ uniform_pc' = "operator"
    /\ UNCHANGED <<uniform_params, nel_index>>
    /\ UNCHANGED <<stepper_vars, flux_vars, box_vars>>

\* The second call of euler_operator (the moving state) does not pass
\* quadrature_tag.
second_call == uniform_cv.momentum[1][1] # RZero

\* euler_operator: the flux in the volume and its weak divergence.
VolumeTerms ==
    /\ uniform_pc = "operator"
    /\ volume_part' = volume_terms(nel_1d[nel_index], uniform_params.order, uniform_cv,
                                   uniform_params.use_overintegration /\ ~second_call)
    /\ uniform_pc' = "faces"
    /\ UNCHANGED <<uniform_params, nel_index, uniform_cv, expected_rhs, face_part,
                   inviscid_rhs, rhs_resid>>
    /\ UNCHANGED <<stepper_vars, flux_vars, box_vars>>

\* euler_operator: the numerical flux on the interior and the boundary faces.
FaceTerms ==
    /\ uniform_pc = "faces"
    /\ face_part' = face_terms(nel_1d[nel_index], uniform_params.order, uniform_cv,
                               uniform_params.numerical_flux_func)
    /\ uniform_pc' = "combine"
    /\ UNCHANGED <<uniform_params, nel_index, uniform_cv, expected_rhs, volume_part,
                   inviscid_rhs, rhs_resid>>
    /\ UNCHANGED <<stepper_vars, flux_vars, box_vars>>

\* inviscid_rhs = euler_operator(...); rhs_resid = inviscid_rhs - expected_rhs
EvalOperator ==
    /\ uniform_pc = "combine"
    /\ inviscid_rhs' = euler_operator(nel_1d[nel_index], uniform_params.order,
                                      uniform_params.dim, volume_part, face_part)
    /\ rhs_resid' = cv_sub(inviscid_rhs', expected_rhs)
    /\ uniform_pc' = "assert"
    /\ UNCHANGED <<uniform_params, nel_index, uniform_cv, expected_rhs, volume_part,
                   face_part>>
    /\ UNCHANGED <<stepper_vars, flux_vars, box_vars>>

\* The assertions; then the moving state, the next mesh, or the end.
AssertResidual ==
    /\ uniform_pc = "assert"
    /\ uniform_pc' =
          IF ~residual_below_tolerance(rhs_resid) THEN "AssertionError"
          ELSE IF uniform_cv.momentum[1][1] = RZero THEN "velocity"
          ELSE IF nel_index < Len(nel_1d) THEN "mesh"
          ELSE "passed"
    /\ nel_index' = IF uniform_pc' = "mesh" THEN nel_index + 1 ELSE nel_index
    /\ UNCHANGED <<uniform_params, uniform_cv, expected_rhs, volume_part, face_part,
                   inviscid_rhs, rhs_resid>>
    /\ UNCHANGED <<stepper_vars, flux_vars, box_vars>>

UniformNext ==
    \/ Skip
    \/ BuildState(FALSE)
    \/ BuildState(TRUE)
    \/ VolumeTerms
    \/ FaceTerms
    \/ EvalOperator
    \/ AssertResidual

SpecUniform == UniformInit /\ [][UniformNext]_vars

\* ------------------------------------------------------- get_box_mesh
\* Python values: None is NoValue; a tuple, a list and a scalar carry their kind.
PyTuple(s) == <<"tuple", s>>
PyList(s) == <<"list", s>>
PyScalar(v) == <<"scalar", v>>

\* (v,) * d
repeat_once(v, d) == PyTuple(<<v>>)
repeat(v, d) == PyTuple([k \in 1 .. d |-> v])

\* type(a) == tuple
is_tuple(a) == a[1] = "tuple"

\* dim_names = ["x", "y", "z"]
dim_names == <<"x", "y", "z">>

\* [sign + dim_names[i]], every tag given the first axis.
face_list_first_axis(sign, k) == <<sign \o dim_names[1]>>
\* [sign + dim_names[i]], with k = i + 1
face_list(sign, k) == <<sign \o dim_names[k]>>

\* sign + str(i + 1), with k = i + 1
tag(sign, k) == sign \o ToString(k)

\* d[key] = value
setitem(d, key, value) == [x \in DOMAIN d \cup {key} |-> IF x = key THEN value ELSE d[x]]

\* The arguments get_box_mesh is called with.
BoxDims == {1, 2, 3}
BoxCoords == {0, 1}
BoxCounts == {2}
MeshTypes == {NoValue, <<"str", "X">>}

\* One argument a, b or n with entries from vals: a scalar, a list, or a tuple
\* whose length need not be the dimension.
BoxValues(vals) ==
    {PyScalar(v) : v \in vals}
        \cup {PyTuple(<<PyScalar(v)>>) : v \in vals}
        \cup {PyTuple(<<PyScalar(v), PyScalar(v)>>) : v \in vals}
        \cup {PyList(<<PyScalar(v)>>) : v \in vals}

BoxInit ==
    /\ StepperIdle
    /\ FluxIdle
    /\ UniformIdle
    /\ \E d \in BoxDims :
          box_args \in [dim : {d}, a : BoxValues(BoxCoords), b : BoxValues(BoxCoords),
                        n : BoxValues(BoxCounts), t : MeshTypes,
                        periodic : {NoValue} \cup {PyTuple(f) : f \in [1 .. d -> BOOLEAN]}]
    /\ box_pc = "periodic"
    /\ periodic = box_args.periodic
    /\ bttf = <<>>
    /\ box_i = 0
    /\ gen_call = NoValue

\* if periodic is None: periodic = (False,)*dim; then dim_names and bttf = {}
DefaultPeriodic ==
    /\ box_pc = "periodic"
    /\ periodic' = IF periodic = NoValue THEN repeat(FALSE, box_args.dim) ELSE periodic
    /\ bttf' = <<>>
    /\ box_i' = 1
    /\ box_pc' = "loop"
    /\ UNCHANGED <<box_args, gen_call>>
    /\ UNCHANGED <<stepper_vars, flux_vars, uniform_vars>>

\* One iteration of for i in range(dim): the two tags of axis i + 1.
TagAxis ==
    /\ box_pc = "loop"
    /\ box_i <= box_args.dim
    /\ bttf' = setitem(setitem(bttf, tag("-", box_i), face_list("-", box_i)),
                       tag("+", box_i), face_list("+", box_i))
    /\ box_i' = box_i + 1
    /\ UNCHANGED <<box_args, box_pc, periodic, gen_call>>
    /\ UNCHANGED <<stepper_vars, flux_vars, uniform_vars>>

\* The loop is over; the call of generate_regular_rect_mesh, in either branch.
Generate ==
    /\ box_pc = "loop"
    /\ box_i > box_args.dim
    /\ gen_call' =
          IF is_tuple(box_args.a)
          THEN [a |-> box_args.a, b |-> box_args.b, n |-> box_args.n,
                boundary_tag_to_face |-> bttf, mesh_type |-> box_args.t,
                periodic |-> periodic]
          ELSE [a |-> repeat(box_args.a, box_args.dim),
                b |-> repeat(box_args.b, box_args.dim),
                n |-> repeat(box_args.n, box_args.dim),
                boundary_tag_to_face |-> bttf, mesh_type |-> box_args.t,
                periodic |-> periodic]
    /\ box_pc' = "returned"
    /\ UNCHANGED <<box_args, periodic, bttf, box_i>>
    /\ UNCHANGED <<stepper_vars, flux_vars, uniform_vars>>

BoxNext == DefaultPeriodic \/ TagAxis \/ Generate

SpecBoxMesh == BoxInit /\ [][BoxNext]_vars

\* ------------------------------------------------------------- claims
\* Positions of the loop body between rk4_step's return and the end of the
\* iteration's bookkeeping.
MidIteration == pc \in {"filter", "fluid", "advance"}

\* The loop was entered and has ended normally.
LoopEnded == pc \in {"final", "check"} \/ (pc = "done" /\ result # "zero")

\* C5: each rk4_step calls rhs exactly four times, in order at t, t + dt/2,
\* t + dt/2 and t + dt, and after N loop iterations rhs (and so euler_operator)
\* has been evaluated exactly 4 * N times.
C5_FourRhsCallsPerStep ==
    /\ pc = "filter" =>
          rhs_times = <<t, RAdd(t, RDiv(dt, <<2, 1>>)), RAdd(t, RDiv(dt, <<2, 1>>)),
                        RAdd(t, dt)>>
    /\ pc = "rk4" => n_rhs = 4 * istep + Len(rhs_times)
    /\ MidIteration => n_rhs = 4 * (istep + 1)
    /\ pc \notin {"rk4", "filter", "fluid", "advance"} => n_rhs = 4 * istep

C5_Witness == pc = "filter" /\ istep = 1 /\ Len(rhs_times) = 4 /\ n_rhs = 8

\* C6: a ValueError is raised exactly when, after the loop, the final maximum
\* error is strictly greater than exittol, and (h_max, maxerr) is returned
\* otherwise; while the loop runs no error is measured, nothing is raised, and
\* every step taken is kept: the state is the k-th filtered RK4 result after k
\* steps.
C6_RaiseIffAboveTolerance ==
    /\ (pc = "done" /\ result # "zero") =>
          /\ result = "ValueError" <=> (maxerr[1] * exittol[2] > exittol[1] * maxerr[2])
          /\ result = "pair" <=> (maxerr[1] * exittol[2] <= exittol[1] * maxerr[2])
    /\ pc # "done" => result = "running"
    /\ pc \notin {"check", "done"} => (maxerr = NoValue /\ resid = NoValue)
    /\ LoopEnded => ~(t[1] * t_final[2] < t_final[1] * t[2])

C6_Witness == pc = "done" /\ result = "ValueError" /\ istep = 2

\* The state after at least one completed step: a filtered RK4 result.
FilteredRk4(q) == Len(q) = 2 /\ q[1] = "filter" /\ q[2][1] = "rk4"

\* C7: in every iteration the modal filter is applied exactly once, after
\* rk4_step has produced the new state and before the next fluid state and the
\* next step estimate are computed, and it is the filtered state that the next
\* step, the status writes and the final error check see.
C7_FilterOncePerStep ==
    /\ n_filter = (IF pc \in {"fluid", "advance"} THEN istep + 1 ELSE istep)
    /\ pc = "filter" => cv[1] = "rk4"
    /\ (pc \in {"fluid", "advance"} \/ (istep > 0 /\ pc # "filter")) => FilteredRk4(cv)
    /\ (pc \in {"advance", "estimate"}) => fluid_state = <<"fluid", cv>>
    /\ (istep > 0 /\ pc \in {"while", "select", "status", "rk4", "final"}) =>
          /\ fluid_state = <<"fluid", cv>>
          /\ ts[2] = <<"fluid", cv>>
    /\ (istep > 0 /\ pc = "rk4" /\ Len(stage) > 0) => FilteredRk4(stage[1][2][2])
    /\ \A i \in 1 .. Len(writes) : writes[i].istep > 0 => FilteredRk4(writes[i].state)
    /\ (resid # NoValue /\ istep > 0) => FilteredRk4(resid[1])

C7_Witness ==
    /\ pc = "check"
    /\ istep = 2
    /\ n_filter = 2
    /\ Len(writes) = 3
    /\ FilteredRk4(resid[1])

\* C8: in fixed-dt mode, in every iteration the effective CFL is the fixed dt
\* divided by the get_inviscid_timestep estimate of the current fluid state,
\* and dt is the caller's value in every iteration.
C8_EffectiveCflIsDtOverEstimate ==
    (~constantcfl /\ pc \in {"status", "rk4"}) =>
        /\ dt = parameters.dt
        /\ ts[2] = fluid_state
        /\ cfl = Rat(dt[1] * 1, dt[2] * ts[1])

\* C10: every write_soln call is made either at the top of an iteration whose
\* step index is a multiple of nstatus, before that iteration's rk4_step (so
\* never between RK stages), or once after the loop has ended; with nstatus 0
\* there is no write at all.
C10_WritesOnlyAtCheckpoints ==
    /\ \A i \in 1 .. Len(writes) :
          LET w == writes[i]
          IN  \/ /\ w.at = "status"
                 /\ w.status = TRUE
                 /\ nstepstatus > 0
                 /\ w.istep % nstepstatus = 0
                 /\ w.n_rhs = 4 * w.istep
                 /\ w.t[1] * t_final[2] < t_final[1] * w.t[2]
              \/ /\ w.at = "final"
                 /\ w.status = FALSE
                 /\ i = Len(writes)
                 /\ w.n_rhs = 4 * w.istep
                 /\ ~(w.t[1] * t_final[2] < t_final[1] * w.t[2])
    /\ nstepstatus = 0 => writes = <<>>
    /\ (nstepstatus > 0 /\ (pc = "check" \/ (pc = "done" /\ result # "zero"))) =>
          (writes # <<>> /\ writes[Len(writes)].at = "final")
    /\ pc \in {"entry", "while", "select", "status", "rk4", "filter", "fluid",
               "advance", "estimate", "final"} =>
          \A i \in 1 .. Len(writes) : writes[i].at = "status"

C10_Witness ==
    /\ pc = "done"
    /\ nstepstatus = 2
    /\ Len(writes) = 3
    /\ writes[1].istep = 0
    /\ writes[2].istep = 2
    /\ writes[3].at = "final"
\* C2: both numerical fluxes are conservative: flux(a, b, n) + flux(b, a, -n) = 0
\* in every component, for all valid states a, b and every unit normal n.
C2_FluxConservative ==
    (flux_fwd # NoValue /\ flux_bwd # NoValue) =>
        /\ Len(flux_fwd) = Len(flux_bwd)
        /\ \A i \in 1 .. Len(flux_fwd) :
              flux_fwd[i][1] * flux_bwd[i][2] + flux_bwd[i][1] * flux_fwd[i][2] = 0

C2_Witness ==
    /\ flux_fwd # NoValue
    /\ flux_bwd # NoValue
    /\ state_pair.func = "hll"
    /\ state_pair.int # state_pair.ext
    /\ Len(flux_fwd) = 5
    /\ flux_fwd[1] # RZero

\* C3: both numerical fluxes are consistent: flux(a, a, n) is the physical flux
\* of a through the face, so Rusanov and HLL agree when the two sides are equal.
C3_FluxConsistent ==
    (flux_fwd # NoValue /\ state_pair.int = state_pair.ext) =>
        LET a == state_pair.int
            n == state_pair.normal
        IN  /\ flux_fwd = inviscid_flux_normal(a, n)
            /\ inviscid_facial_flux_rusanov(a, a, n) = inviscid_facial_flux_hll(a, a, n)

C3_Witness ==
    /\ flux_fwd # NoValue
    /\ state_pair.int = state_pair.ext
    /\ state_pair.func = "hll"
    /\ Len(flux_fwd) = 5
    /\ flux_fwd[1] # RZero

\* Every nodal value of a field is exactly zero or below the tolerance 1e-9.
FieldIsZero(x) ==
    \A k \in 1 .. Len(x) : Abs(x[k][1]) <= (x[k][2] - 1) \div tolerance_inv

\* C1: euler_operator of a uniform state (at rest or moving) with a
\* DummyBoundary on every boundary face is zero within 1e-9 in every component:
\* mass, energy, each momentum and each species mass, for every dimension,
\* either species count, each order, either flux and with or without
\* over-integration.
C1_UniformRhsIsZero ==
    /\ uniform_pc # "AssertionError"
    /\ inviscid_rhs # NoState =>
          /\ FieldIsZero(inviscid_rhs.mass)
          /\ FieldIsZero(inviscid_rhs.energy)
          /\ Len(inviscid_rhs.momentum) = uniform_params.dim
          /\ \A i \in 1 .. Len(inviscid_rhs.momentum) :
                FieldIsZero(inviscid_rhs.momentum[i])
          /\ Len(inviscid_rhs.species_mass) = uniform_params.nspecies
          /\ \A i \in 1 .. Len(inviscid_rhs.species_mass) :
                FieldIsZero(inviscid_rhs.species_mass[i])

C1_Witness ==
    /\ uniform_pc = "passed"
    /\ uniform_params.dim = 3
    /\ uniform_params.nspecies = 10
    /\ uniform_params.order = 3
    /\ uniform_params.numerical_flux_func = "hll"
    /\ uniform_params.use_overintegration
    /\ uniform_cv.momentum[2][1] = <<-1, 1>>
    /\ Len(inviscid_rhs.mass) = 32
    /\ Len(inviscid_rhs.species_mass) = 10

\* The shape of a conserved state: its dimension, the number of its momentum
\* components, the number of its species and the number of its components.
Shape(state) ==
    <<state.dim, Len(state.momentum), Len(state.species_mass), Len(join(state))>>

\* C9: a conserved state of dimension D with S species has exactly D + 2 + S
\* components: the state made from named fields, the state made from a flat
\* sequence of D + 2 + S fields, the operator's result and the difference of
\* two states all have D momentum and S species components.
C9_ConservedStateShape ==
    LET d == uniform_params.dim
        ns == uniform_params.nspecies
        want == <<d, d, ns, d + 2 + ns>>
    IN  /\ uniform_cv # NoState => Shape(uniform_cv) = want
        /\ expected_rhs # NoState => Shape(expected_rhs) = want
        /\ inviscid_rhs # NoState => Shape(inviscid_rhs) = want
        /\ rhs_resid # NoState => Shape(rhs_resid) = want

C9_Witness ==
    /\ rhs_resid # NoState
    /\ uniform_params.dim = 3
    /\ uniform_params.nspecies = 10
    /\ Len(join(rhs_resid)) = 15
    /\ Len(join(expected_rhs)) = 15

\* C12: in constant-CFL mode cfl keeps the caller's value throughout, and the
\* dt every rk4_step is taken with is cfl times the get_inviscid_timestep
\* estimate of the fluid state at the start of that step: the initial state
\* for the first step, the filtered result of the previous step afterwards.
C12_ConstantCflStep ==
    constantcfl =>
        /\ cfl = parameters.cfl
        /\ pc \in {"status", "rk4"} =>
              /\ dt = RMul(parameters.cfl, RInt(ts[1]))
              /\ ts[2] = make_fluid_state(cv)
              /\ istep = 0 => cv = initializer
              /\ istep > 0 => FilteredRk4(cv)
        /\ pc = "filter" =>
              /\ cv[1] = "rk4"
              /\ cv[4] = RMul(parameters.cfl, RInt(ts[1]))
              /\ ts[2] = make_fluid_state(cv[2])

C12_Witness ==
    /\ constantcfl
    /\ pc = "filter"
    /\ istep = 1
    /\ parameters.cfl = <<1, 1>>
    /\ cv[4] = <<2, 1>>
    /\ cv[4] # parameters.dt
    /\ FilteredRk4(cv[2])

C14_EarlyReturnDoesNothing ==
    /\ RLe(parameters.tfinal, parameters.time) =>
          /\ pc \in {"entry", "done"}
          /\ pc = "done" => result = "zero"
          /\ result \in {"running", "zero"}
          /\ t = parameters.time /\ istep = 0
          /\ cv = NoValue /\ fluid_state = NoValue /\ ts = NoValue
          /\ stage = <<>> /\ n_rhs = 0 /\ n_filter = 0
          /\ writes = <<>>
          /\ resid = NoValue /\ maxerr = NoValue
    /\ result = "zero" => RLe(parameters.tfinal, parameters.time)

C14_Witness ==
    /\ pc = "done"
    /\ result = "zero"
    /\ parameters.tfinal = parameters.time
    /\ parameters.nstatus = 1
    /\ writes = <<>>
    /\ maxerr = NoValue

\* C15: the final error and the outcome do not depend on nstatus: with status
\* writes on or off, maxerr is the largest error over all the components of
\* the conserved state, the species included, and ValueError is raised exactly
\* when that exceeds exittol.
C15_SameErrorWithOrWithoutStatus ==
    pc \in {"check", "done"} /\ resid # NoValue =>
        LET all == MaxOver(resid[2], max_component_norm_components(dim, nspecies))
        IN  /\ maxerr = all
            /\ pc = "done" => (result = "ValueError" <=> diverged(all, exittol))

\* C16: for every dim in {1, 2, 3}, the boundary-tag map get_box_mesh passes to
\* the mesh generator has exactly 2 * dim keys, "-k" and "+k" for k = 1 .. dim;
\* "-k" maps to the one face "-" + axis k and "+k" to "+" + axis k, the axes
\* being x, y, z; and no face name appears under two tags.
C16_BoundaryTagMap ==
    box_pc = "returned" =>
        LET m == gen_call.boundary_tag_to_face
            d == box_args.dim
            minus == <<"-1", "-2", "-3">>
            plus == <<"+1", "+2", "+3">>
            minus_face == <<"-x", "-y", "-z">>
            plus_face == <<"+x", "+y", "+z">>
        IN  /\ d \in {1, 2, 3}
            /\ Cardinality(DOMAIN m) = 2 * d
            /\ DOMAIN m = {minus[k] : k \in 1 .. d} \cup {plus[k] : k \in 1 .. d}
            /\ \A k \in 1 .. d : /\ m[minus[k]] = <<minus_face[k]>>
                                  /\ m[plus[k]] = <<plus_face[k]>>
            /\ \A j, k \in DOMAIN m :
                   j # k => \A p \in 1 .. Len(m[j]), q \in 1 .. Len(m[k]) : m[j][p] # m[k][q]
C16_Witness == box_pc = "returned" /\ box_args.dim = 3 /\ Cardinality(DOMAIN gen_call.boundary_tag_to_face) = 6 /\ gen_call.boundary_tag_to_face["+3"] = <<"+z">>

\* C17: get_box_mesh passes a, b and n on unchanged when a is a tuple, and
\* otherwise passes each of a, b and n repeated dim times in a tuple; in both
\* cases periodic is the one given, or dim times False when none was given, and
\* the boundary-tag map built by the loop and the mesh type t are passed.
C17_ArgumentsForwarded ==
    box_pc = "returned" =>
        LET d == box_args.dim
        IN  /\ box_args.a[1] = "tuple" =>
                  /\ gen_call.a = box_args.a
                  /\ gen_call.b = box_args.b
                  /\ gen_call.n = box_args.n
            /\ box_args.a[1] # "tuple" =>
                  /\ gen_call.a = <<"tuple", [k \in 1 .. d |-> box_args.a]>>
                  /\ gen_call.b = <<"tuple", [k \in 1 .. d |-> box_args.b]>>
                  /\ gen_call.n = <<"tuple", [k \in 1 .. d |-> box_args.n]>>
            /\ gen_call.periodic =
                  IF box_args.periodic = NoValue THEN <<"tuple", [k \in 1 .. d |-> FALSE]>>
                  ELSE box_args.periodic
            /\ gen_call.boundary_tag_to_face = bttf
            /\ Cardinality(DOMAIN bttf) = 2 * d
            /\ gen_call.mesh_type = box_args.t
C17_Witness == box_pc = "returned" /\ box_args.dim = 3 /\ box_args.a[1] = "scalar" /\ box_args.a[2] = 1 /\ box_args.periodic = NoValue /\ Len(gen_call.a[2]) = 3 /\ gen_call.a[2][3] = <<"scalar", 1>> /\ gen_call.periodic[2] = <<FALSE, FALSE, FALSE>> /\ gen_call.mesh_type = <<"str", "X">>
====
